---------------------------- MODULE Spec2Model ----------------------------
(***************************************************************************)
(* A model of src/example.py: the Iliad pipeline                           *)
(*   get_sentences -> get_olympian_sentences -> modernize_sentences        *)
(*   -> merge_sentences -> print.                                          *)
(*                                                                         *)
(* A Python str is modelled as a sequence of characters, each character a  *)
(* one-character TLA+ string.  The two non-ASCII characters the model      *)
(* needs are written by their code points: "U+2019" is the right single    *)
(* quotation mark of line 67, "U+0663" is ARABIC-INDIC DIGIT THREE, a      *)
(* decimal digit (category Nd) that is not in string.digits.               *)
(***************************************************************************)
EXTENDS Integers, Sequences, FiniteSets

VARIABLES
    pc,                    \* the line of the script that runs next
    iliad,                 \* line 19: the fetched text (module-level name)
    iliad_local,           \* lines 26-40: the parameter `iliad` of get_sentences
    sentences,             \* line 87
    olympian_sentences,    \* line 88
    modernized_sentences,  \* line 92
    olympian_iliad,        \* line 96
    raised                 \* the exception that ended the script, or "none"

vars == <<pc, iliad, iliad_local, sentences, olympian_sentences,
          modernized_sentences, olympian_iliad, raised>>

(***************************************************************************)
(* Characters                                                              *)
(***************************************************************************)
CR == "\r"
LF == "\n"
SP == " "
DOT == "."
LB == "["
RB == "]"
RSQUO == "U+2019"
ARABIC3 == "U+0663"

\* string.digits (line 38): the ASCII digits only.
string_digits == {"0", "1", "2", "3", "4", "5", "6", "7", "8", "9"}

\* What \d matches in a str pattern (line 36): every Unicode decimal digit.
\* ARABIC3 stands for the decimal digits outside ASCII.
re_digit == string_digits \cup {ARABIC3}

\* What str.strip() with no argument removes (line 67), among the characters
\* a TLA+ string can hold.
str_whitespace == {SP, "\t", LF, CR, "\f"}

ascii_uppercase ==
    <<"A", "B", "C", "D", "E", "F", "G", "H", "I", "J", "K", "L", "M",
      "N", "O", "P", "Q", "R", "S", "T", "U", "V", "W", "X", "Y", "Z">>
ascii_lowercase ==
    <<"a", "b", "c", "d", "e", "f", "g", "h", "i", "j", "k", "l", "m",
      "n", "o", "p", "q", "r", "s", "t", "u", "v", "w", "x", "y", "z">>

\* 'olymp' (line 56)
keyword == <<"o", "l", "y", "m", "p">>

(***************************************************************************)
(* get_sentences, lines 34-40                                              *)
(***************************************************************************)
\* re.sub('\r\n', ' ', s): a left-to-right scan, non-overlapping matches.
RECURSIVE re_sub_scan_newline(_)
re_sub_scan_newline(s) ==
    IF s = <<>> THEN <<>>
    ELSE IF Len(s) >= 2 /\ s[1] = CR /\ s[2] = LF
         THEN <<SP>> \o re_sub_scan_newline(SubSeq(s, 3, Len(s)))
         ELSE <<s[1]>> \o re_sub_scan_newline(Tail(s))

\* A mutant: re.sub('\r\n', ' ', s, count=1), only the first line ending.
re_sub_newline_first_only(s) ==
    IF \E i \in 1..(Len(s) - 1) : s[i] = CR /\ s[i + 1] = LF
    THEN LET i == CHOOSE i \in 1..(Len(s) - 1) :
                     /\ s[i] = CR /\ s[i + 1] = LF
                     /\ \A j \in 1..(i - 1) : ~(s[j] = CR /\ s[j + 1] = LF)
         IN  SubSeq(s, 1, i - 1) \o <<SP>> \o SubSeq(s, i + 2, Len(s))
    ELSE s

re_sub_newline(s) == re_sub_scan_newline(s)

\* The length of the greedy run of characters of `class` that starts at s[i].
RECURSIVE run_length(_, _, _)
run_length(s, i, class) ==
    IF i <= Len(s) /\ s[i] \in class THEN 1 + run_length(s, i + 1, class) ELSE 0

\* The length of the match of \[\d+\] at the head of s, 0 when none.
\* \d+ is greedy; giving digits back cannot help, the character after a
\* shorter run being a digit and not ']'.
marker_match(s) ==
    IF s # <<>> /\ s[1] = LB
    THEN LET n == run_length(s, 2, re_digit)
         IN  IF n >= 1 /\ n + 2 <= Len(s) /\ s[n + 2] = RB THEN n + 2 ELSE 0
    ELSE 0

RECURSIVE re_sub_scan_marker(_)
re_sub_scan_marker(s) ==
    IF s = <<>> THEN <<>>
    ELSE LET m == marker_match(s)
         IN  IF m > 0
             THEN re_sub_scan_marker(SubSeq(s, m + 1, Len(s)))
             ELSE <<s[1]>> \o re_sub_scan_marker(Tail(s))

\* A mutant: the pattern \[\d*\], which also deletes "[]".
RECURSIVE re_sub_marker_star(_)
re_sub_marker_star(s) ==
    IF s = <<>> THEN <<>>
    ELSE LET n == run_length(s, 2, re_digit)
         IN  IF s[1] = LB /\ n + 2 <= Len(s) /\ s[n + 2] = RB
             THEN re_sub_marker_star(SubSeq(s, n + 3, Len(s)))
             ELSE <<s[1]>> \o re_sub_marker_star(Tail(s))

\* re.sub('\\[\d+\\]', '', s)
re_sub_marker(s) == re_sub_scan_marker(s)

\* s.translate(str.maketrans('', '', string.digits))
translate_digits(s) == SelectSeq(s, LAMBDA c : c \notin string_digits)

\* Lines 34-38 in one: the text that line 40 splits.
clean(s) == translate_digits(re_sub_marker(re_sub_newline(s)))

\* The index of the first '.' of s; s has one.
first_dot(s) == CHOOSE i \in 1..Len(s) : s[i] = DOT /\ \A j \in 1..(i - 1) : s[j] # DOT

RECURSIVE split_scan(_)
split_scan(s) ==
    IF \A i \in 1..Len(s) : s[i] # DOT THEN <<s>>
    ELSE <<SubSeq(s, 1, first_dot(s) - 1)>>
             \o split_scan(SubSeq(s, first_dot(s) + 1, Len(s)))

\* A mutant: s.split() semantics for empties, the empty fragments dropped.
split_drop_empty(s) == SelectSeq(split_scan(s), LAMBDA f : f # <<>>)

\* A mutant: the delimiter kept at the end of the fragment it closes.
RECURSIVE split_keep_delimiter(_)
split_keep_delimiter(s) ==
    IF \A i \in 1..Len(s) : s[i] # DOT THEN <<s>>
    ELSE <<SubSeq(s, 1, first_dot(s))>>
             \o split_keep_delimiter(SubSeq(s, first_dot(s) + 1, Len(s)))

\* s.split('.')
split_dot(s) == split_scan(s)

(***************************************************************************)
(* get_olympian_sentences, line 56                                         *)
(***************************************************************************)
lower_char(c) ==
    IF \E i \in 1..Len(ascii_uppercase) : ascii_uppercase[i] = c
    THEN ascii_lowercase[CHOOSE i \in 1..Len(ascii_uppercase) : ascii_uppercase[i] = c]
    ELSE c

\* s.lower()
str_lower(s) == [i \in 1..Len(s) |-> lower_char(s[i])]

\* sub in s
str_contains(sub, s) ==
    \E i \in 1..(Len(s) - Len(sub) + 1) : SubSeq(s, i, i + Len(sub) - 1) = sub

\* A mutant: 'olymp' in s, the match made case-sensitive.
olymp_predicate_case_sensitive(s) == str_contains(keyword, s)

\* lambda s: 'olymp' in s.lower()
olymp_predicate(s) == str_contains(keyword, str_lower(s))

\* list(filter(lambda s: 'olymp' in s.lower(), sentences))
get_olympian_sentences(ss) == SelectSeq(ss, olymp_predicate)

(***************************************************************************)
(* modernize_sentences, line 67                                            *)
(***************************************************************************)
\* s.replace(RSQUO + 'd', 'ed'): a left-to-right scan, non-overlapping.
RECURSIVE str_replace(_)
str_replace(s) ==
    IF s = <<>> THEN <<>>
    ELSE IF Len(s) >= 2 /\ s[1] = RSQUO /\ s[2] = "d"
         THEN <<"e", "d">> \o str_replace(SubSeq(s, 3, Len(s)))
         ELSE <<s[1]>> \o str_replace(Tail(s))

RECURSIVE str_lstrip(_)
str_lstrip(s) ==
    IF s # <<>> /\ s[1] \in str_whitespace THEN str_lstrip(Tail(s)) ELSE s

RECURSIVE str_rstrip(_)
str_rstrip(s) ==
    IF s # <<>> /\ s[Len(s)] \in str_whitespace
    THEN str_rstrip(SubSeq(s, 1, Len(s) - 1))
    ELSE s

\* s.strip()
str_strip(s) == str_rstrip(str_lstrip(s))

\* lambda s: s.replace(RSQUO + 'd', 'ed').strip()
modernize_one(s) == str_strip(str_replace(s))

\* A mutant: the fragments that strip to nothing are dropped.
modernize_drop_empty(ss) ==
    SelectSeq([i \in 1..Len(ss) |-> modernize_one(ss[i])], LAMBDA f : f # <<>>)

\* list(map(lambda s: ..., sentences))
modernize_sentences(ss) == [i \in 1..Len(ss) |-> modernize_one(ss[i])]

(***************************************************************************)
(* merge_sentences, line 83                                                *)
(***************************************************************************)
Returned(v) == [exc |-> "none", val |-> v]
Raised(e) == [exc |-> e, val |-> <<>>]

\* A mutant: the delimiter is inserted whatever a ends in.
merge_lambda_always(a, b) ==
    IF a = <<>> THEN Raised("IndexError") ELSE Returned(a \o <<DOT, SP>> \o b)

\* lambda a, b: a + b if a[-1] == '.' else a + '. ' + b
\* a[-1] on the empty str raises IndexError.
merge_lambda(a, b) ==
    IF a = <<>> THEN Raised("IndexError")
    ELSE IF a[Len(a)] = DOT THEN Returned(a \o b)
         ELSE Returned(a \o <<DOT, SP>> \o b)

\* functools.reduce from element i on, the accumulator being acc; an
\* exception of the lambda ends the fold.
RECURSIVE reduce_from(_, _, _)
reduce_from(acc, ss, i) ==
    IF i > Len(ss) THEN Returned(acc)
    ELSE LET r == merge_lambda(acc, ss[i])
         IN  IF r.exc # "none" THEN r ELSE reduce_from(r.val, ss, i + 1)

\* A mutant: reduce(..., sentences, ''), the empty str as initial value.
merge_sentences_initial(ss) ==
    IF ss = <<>> THEN Returned(<<>>) ELSE reduce_from(ss[1], ss, 2)

\* reduce(lambda, sentences): with no initial value the first element is the
\* accumulator, and the empty list raises TypeError.
merge_sentences(ss) ==
    IF ss = <<>> THEN Raised("TypeError") ELSE reduce_from(ss[1], ss, 2)

(***************************************************************************)
(* The script, lines 87-98.  get_sentences runs a statement at a time on   *)
(* its parameter; the three one-line functions run in one step each.       *)
(***************************************************************************)
Line34 ==
    /\ pc = "line34"
    /\ iliad_local' = re_sub_newline(iliad_local)
    /\ pc' = "line36"
    /\ UNCHANGED <<iliad, sentences, olympian_sentences, modernized_sentences,
                   olympian_iliad, raised>>

Line36 ==
    /\ pc = "line36"
    /\ iliad_local' = re_sub_marker(iliad_local)
    /\ pc' = "line38"
    /\ UNCHANGED <<iliad, sentences, olympian_sentences, modernized_sentences,
                   olympian_iliad, raised>>

Line38 ==
    /\ pc = "line38"
    /\ iliad_local' = translate_digits(iliad_local)
    /\ pc' = "line40"
    /\ UNCHANGED <<iliad, sentences, olympian_sentences, modernized_sentences,
                   olympian_iliad, raised>>

\* return iliad.split('.'), bound to `sentences` by line 87
Line40 ==
    /\ pc = "line40"
    /\ sentences' = split_dot(iliad_local)
    /\ pc' = "line88"
    /\ UNCHANGED <<iliad, iliad_local, olympian_sentences, modernized_sentences,
                   olympian_iliad, raised>>

Line88 ==
    /\ pc = "line88"
    /\ olympian_sentences' = get_olympian_sentences(sentences)
    /\ pc' = "line92"
    /\ UNCHANGED <<iliad, iliad_local, sentences, modernized_sentences,
                   olympian_iliad, raised>>

Line92 ==
    /\ pc = "line92"
    /\ modernized_sentences' = modernize_sentences(olympian_sentences)
    /\ pc' = "line96"
    /\ UNCHANGED <<iliad, iliad_local, sentences, olympian_sentences,
                   olympian_iliad, raised>>

\* An exception of merge_sentences is caught nowhere: the script ends, and
\* olympian_iliad is never bound.
Line96 ==
    /\ pc = "line96"
    /\ LET r == merge_sentences(modernized_sentences)
       IN  IF r.exc = "none"
           THEN /\ olympian_iliad' = r.val
                /\ pc' = "line98"
                /\ UNCHANGED raised
           ELSE /\ raised' = r.exc
                /\ pc' = "raised"
                /\ UNCHANGED olympian_iliad
    /\ UNCHANGED <<iliad, iliad_local, sentences, olympian_sentences,
                   modernized_sentences>>

\* print(olympian_iliad)
Line98 ==
    /\ pc = "line98"
    /\ pc' = "done"
    /\ UNCHANGED <<iliad, iliad_local, sentences, olympian_sentences,
                   modernized_sentences, olympian_iliad, raised>>

(***************************************************************************)
(* Inputs.  A text is the concatenation of at most n tokens; a fragment    *)
(* sequence is written as a token sequence with separators.                *)
(***************************************************************************)
RECURSIVE Flatten(_)
Flatten(ts) == IF ts = <<>> THEN <<>> ELSE Head(ts) \o Flatten(Tail(ts))

TokenSeqs(tokens, n) == UNION {[1..k -> tokens] : k \in 0..n}

Texts(tokens, n) == {Flatten(ts) : ts \in TokenSeqs(tokens, n)}

SEP == <<"<next fragment>">>

RECURSIVE Fragments(_, _)
Fragments(ts, current) ==
    IF ts = <<>> THEN <<current>>
    ELSE IF Head(ts) = SEP THEN <<current>> \o Fragments(Tail(ts), <<>>)
         ELSE Fragments(Tail(ts), current \o Head(ts))

\* Every sequence of fragments written with at most n tokens and separators,
\* and the empty sequence.
FragmentSeqs(tokens, n) ==
    {<<>>} \cup {Fragments(ts, <<>>) : ts \in TokenSeqs(tokens \cup {SEP}, n)}

MaxDocTokens == 5
MaxTextLen == 5
MaxFilterTokens == 5
MaxModernizeLen == 6
MaxMergeLen == 7

Olymp == <<"O", "l", "y", "m", "p">>

\* The only whitespace of a document is its line endings, which line 34
\* turns into spaces.
DocTokens ==
    {Olymp, <<"o", "l", "y">>, <<"m", "p">>, <<RSQUO, "d">>, <<CR, LF>>, <<DOT>>, <<"1">>}

\* "Line1\r\nLine [12]\r\nEnd3." and "A.B..C"
ConcreteTexts ==
    {<<"L", "i", "n", "e", "1", CR, LF, "L", "i", "n", "e", SP, LB, "1", "2", RB,
       CR, LF, "E", "n", "d", "3", DOT>>,
     <<"A", DOT, "B", DOT, DOT, "C">>}

TextAlphabet == {<<CR>>, <<LF>>, <<LB>>, <<RB>>, <<"1">>, <<ARABIC3>>, <<DOT>>, <<"a">>}

FilterTokens ==
    {<<"o">>, <<"O">>, <<"l", "y", "m", "p">>, <<"L", "y", "M", "P">>,
     <<"l", "y", "m">>, <<SP>>}

\* ["Zeus reigns on Olympus", "a plain one"]
ConcreteFilterInput ==
    << <<"Z", "e", "u", "s", SP, "r", "e", "i", "g", "n", "s", SP, "o", "n", SP,
         "O", "l", "y", "m", "p", "u", "s">>,
       <<"a", SP, "p", "l", "a", "i", "n", SP, "o", "n", "e">> >>

ModernizeAlphabet == {<<RSQUO>>, <<"d">>, <<SP>>, <<LF>>, <<"v">>}

\* [" belovU+2019d friend "]
ConcreteModernizeInput ==
    << <<SP, "b", "e", "l", "o", "v", RSQUO, "d", SP, "f", "r", "i", "e", "n", "d", SP>> >>

MergeAlphabet == {<<"A">>, <<"B">>, <<DOT>>}

\* The whole script on a fetched document.
Init ==
    /\ pc = "line34"
    /\ iliad \in Texts(DocTokens, MaxDocTokens)
    /\ iliad_local = iliad
    /\ sentences = <<>>
    /\ olympian_sentences = <<>>
    /\ modernized_sentences = <<>>
    /\ olympian_iliad = <<>>
    /\ raised = "none"

Next == Line34 \/ Line36 \/ Line38 \/ Line40 \/ Line88 \/ Line92 \/ Line96 \/ Line98

Spec == Init /\ [][Next]_vars

\* get_sentences called on any text.
InitSentences ==
    /\ pc = "line34"
    /\ iliad \in Texts(TextAlphabet, MaxTextLen) \cup ConcreteTexts
    /\ iliad_local = iliad
    /\ sentences = <<>>
    /\ olympian_sentences = <<>>
    /\ modernized_sentences = <<>>
    /\ olympian_iliad = <<>>
    /\ raised = "none"

NextSentences == Line34 \/ Line36 \/ Line38 \/ Line40

SpecSentences == InitSentences /\ [][NextSentences]_vars

\* get_olympian_sentences called on any list of fragments.
InitFilter ==
    /\ pc = "line88"
    /\ sentences \in FragmentSeqs(FilterTokens, MaxFilterTokens) \cup {ConcreteFilterInput}
    /\ iliad = <<>>
    /\ iliad_local = <<>>
    /\ olympian_sentences = <<>>
    /\ modernized_sentences = <<>>
    /\ olympian_iliad = <<>>
    /\ raised = "none"

NextFilter == Line88

SpecFilter == InitFilter /\ [][NextFilter]_vars

\* modernize_sentences called on any list of fragments.
InitModernize ==
    /\ pc = "line92"
    /\ olympian_sentences \in
           FragmentSeqs(ModernizeAlphabet, MaxModernizeLen) \cup {ConcreteModernizeInput}
    /\ iliad = <<>>
    /\ iliad_local = <<>>
    /\ sentences = <<>>
    /\ modernized_sentences = <<>>
    /\ olympian_iliad = <<>>
    /\ raised = "none"

NextModernize == Line92

SpecModernize == InitModernize /\ [][NextModernize]_vars

\* merge_sentences called on any list of fragments.
InitMerge ==
    /\ pc = "line96"
    /\ modernized_sentences \in FragmentSeqs(MergeAlphabet, MaxMergeLen)
    /\ iliad = <<>>
    /\ iliad_local = <<>>
    /\ sentences = <<>>
    /\ olympian_sentences = <<>>
    /\ olympian_iliad = <<>>
    /\ raised = "none"

NextMerge == Line96 \/ Line98

SpecMerge == InitMerge /\ [][NextMerge]_vars

(***************************************************************************)
(* What the claims speak of, stated on positions and not by scanning.      *)
(***************************************************************************)
\* The j-th smallest element of the set of positions K.
Nth(K, j) == CHOOSE i \in K : Cardinality({k \in K : k <= i}) = j

\* The elements of s at the positions K, in order.
Pick(s, K) == [j \in 1..Cardinality(K) |-> s[Nth(K, j)]]

Positions(s) == 1..Len(s)

\* The positions where a carriage return is followed by a line feed.
NewlineAt(s) == {i \in Positions(s) : s[i] = CR /\ i < Len(s) /\ s[i + 1] = LF}

HasNewline(s) == NewlineAt(s) # {}

\* Step 1: each line ending becomes one space.
NewlinesReplaced(s) ==
    Pick([i \in Positions(s) |-> IF i \in NewlineAt(s) THEN SP ELSE s[i]],
         {i \in Positions(s) : (i - 1) \notin NewlineAt(s)})

\* The positions a citation marker covers, digits being the characters of D.
MarkerPositions(s, D) ==
    {k \in Positions(s) :
        \E i \in 1..k, j \in k..Len(s) :
            /\ s[i] = LB /\ s[j] = RB /\ j >= i + 2
            /\ \A d \in (i + 1)..(j - 1) : s[d] \in D}

\* Step 2: each marker is deleted.
MarkersDeleted(s, D) == Pick(s, Positions(s) \ MarkerPositions(s, D))

\* Step 3: each digit is deleted.
DigitsDeleted(s, D) == Pick(s, {i \in Positions(s) : s[i] \notin D})

\* The two things "decimal digit" can mean in Python: 0-9, or any Unicode
\* decimal digit.
DigitReadings == {string_digits, re_digit}

Cleaned == pc \in {"line40", "line88"}

RECURSIVE JoinWith(_, _)
JoinWith(sep, fs) ==
    IF Len(fs) = 1 THEN fs[1]
    ELSE JoinWith(sep, SubSeq(fs, 1, Len(fs) - 1)) \o sep \o fs[Len(fs)]

\* f, lower-cased, holds the keyword somewhere.
Matches(f) ==
    \E off \in 0..(Len(f) - Len(keyword)) :
        \A k \in 1..Len(keyword) : lower_char(f[off + k]) = keyword[k]

Matching(fs) == Pick(fs, {i \in Positions(fs) : Matches(fs[i])})

\* Each right single quotation mark that a 'd' follows becomes an 'e'.
ContractionsReplaced(f) ==
    [k \in Positions(f) |->
        IF f[k] = RSQUO /\ k < Len(f) /\ f[k + 1] = "d" THEN "e" ELSE f[k]]

\* f from its first to its last character that is not whitespace.
Trimmed(f) ==
    LET solid == {k \in Positions(f) : f[k] \notin str_whitespace}
    IN  IF solid = {} THEN <<>>
        ELSE SubSeq(f, CHOOSE k \in solid : \A m \in solid : k <= m,
                       CHOOSE k \in solid : \A m \in solid : k >= m)

Modernized(fs) == [i \in Positions(fs) |-> Trimmed(ContractionsReplaced(fs[i]))]

\* The accumulator of the fold after the first n fragments.
RECURSIVE Accumulated(_, _)
Accumulated(fs, n) ==
    IF n = 1 THEN fs[1]
    ELSE LET acc == Accumulated(fs, n - 1)
         IN  IF acc[Len(acc)] = DOT THEN acc \o fs[n] ELSE acc \o <<DOT, SP>> \o fs[n]

Merged == pc \in {"line98", "done", "raised"}

(***************************************************************************)
(* The claims                                                              *)
(***************************************************************************)
\* C1: for one or more non-empty fragments merge_sentences returns the left
\* fold that starts with the first fragment and appends `next` directly after
\* an accumulator ending in '.', and ". " + next otherwise; one fragment is
\* returned unchanged; ["A","B"] gives "A. B" and ["A.","B"] gives "A.B".
C1_MergeIsLeftFold ==
    (Merged /\ modernized_sentences # <<>>
            /\ \A i \in Positions(modernized_sentences) : modernized_sentences[i] # <<>>)
    => /\ pc # "raised"
       /\ olympian_iliad = Accumulated(modernized_sentences, Len(modernized_sentences))
       /\ Len(modernized_sentences) = 1 => olympian_iliad = modernized_sentences[1]
       /\ modernized_sentences = << <<"A">>, <<"B">> >>
              => olympian_iliad = <<"A", DOT, SP, "B">>
       /\ modernized_sentences = << <<"A", DOT>>, <<"B">> >>
              => olympian_iliad = <<"A", DOT, "B">>

\* C1's case: both branches of the fold taken, nothing after the last fragment.
C1_Witness ==
    /\ pc = "line98"
    /\ modernized_sentences = << <<"A">>, <<"B", DOT>>, <<"A">> >>
    /\ olympian_iliad = <<"A", DOT, SP, "B", DOT, "A">>

\* C2: merge_sentences on the empty list raises and returns no string, so a
\* run whose filter keeps nothing ends in that error and prints nothing.
C2_EmptyInputRaises ==
    (Merged /\ (olympian_sentences = <<>> \/ modernized_sentences = <<>>))
    => /\ pc = "raised"
       /\ raised = "TypeError"
       /\ olympian_iliad = <<>>

\* C2's case: a document with several sentences, none of them kept.
C2_Witness ==
    /\ pc = "raised"
    /\ Len(sentences) >= 2
    /\ olympian_sentences = <<>>
    /\ modernized_sentences = <<>>

\* C3: the cleaned text is the input with (1) every line ending replaced by a
\* space, then (2) every '[' digits ']' marker deleted, then (3) every
\* remaining decimal digit deleted, under one reading of "digit" at least.
C3_CleanIsThreeSteps ==
    Cleaned =>
        \E D \in DigitReadings :
            iliad_local = DigitsDeleted(MarkersDeleted(NewlinesReplaced(iliad), D), D)

\* C4: split_dot is the maximal split: one fragment more than there are '.',
\* no '.' in a fragment, empty fragments kept, and the fragments joined with
\* '.' are the text; "A.B..C" gives ["A","B","","C"].
C4_SplitIsMaximal ==
    pc = "line88" =>
        /\ Len(sentences) = Cardinality({i \in Positions(iliad_local) : iliad_local[i] = DOT}) + 1
        /\ \A k \in Positions(sentences) :
               \A j \in Positions(sentences[k]) : sentences[k][j] # DOT
        /\ JoinWith(<<DOT>>, sentences) = iliad_local
        /\ iliad_local = <<"A", DOT, "B", DOT, DOT, "C">>
               => sentences = << <<"A">>, <<"B">>, <<>>, <<"C">> >>

\* C4's case: consecutive delimiters, the empty fragment kept in place.
C4_Witness ==
    /\ pc = "line88"
    /\ iliad = <<"A", DOT, "B", DOT, DOT, "C">>
    /\ sentences = << <<"A">>, <<"B">>, <<>>, <<"C">> >>

\* C5: the filter returns exactly the fragments whose lower-cased copy holds
\* "olymp", in input order and unchanged; no match gives the empty list.
C5_FilterIsMatchingSubsequence ==
    pc = "line92" =>
        /\ olympian_sentences = Matching(sentences)
        /\ Len(olympian_sentences) <= Len(sentences)
        /\ (\A i \in Positions(sentences) : ~Matches(sentences[i]))
               => olympian_sentences = <<>>

\* C5's case: a capitalised match kept with its casing, a non-match dropped.
C5_Witness ==
    /\ pc = "line92"
    /\ sentences = ConcreteFilterInput
    /\ olympian_sentences = <<ConcreteFilterInput[1]>>

\* C6: modernize_sentences keeps the length and the order; its i-th element
\* is the i-th input with every RSQUO + 'd' made "ed" and then the
\* whitespace at both ends removed, also when nothing is left.
C6_ModernizeIsPointwise ==
    pc = "line96" =>
        /\ Len(modernized_sentences) = Len(olympian_sentences)
        /\ modernized_sentences = Modernized(olympian_sentences)

\* C6's case: a fragment stripped to nothing stays, beside one rewritten.
C6_Witness ==
    /\ pc = "line96"
    /\ Len(olympian_sentences) >= 2
    /\ \E i \in Positions(olympian_sentences) :
           olympian_sentences[i] # <<>> /\ modernized_sentences[i] = <<>>
    /\ \E i \in Positions(olympian_sentences) :
           \E k \in Positions(olympian_sentences[i]) :
               olympian_sentences[i][k] = RSQUO /\ modernized_sentences[i] = <<"e", "d">>

\* The text has no citation marker, no digit and no line ending.
NothingToClean(s) ==
    /\ \A i \in Positions(s) : s[i] \notin re_digit
    /\ MarkerPositions(s, re_digit) = {}
    /\ ~HasNewline(s)

\* C7: on a text with no marker, no digit and no line ending, cleaning the
\* cleaned text changes nothing.
C7_CleanIdempotent ==
    (Cleaned /\ NothingToClean(iliad)) => clean(iliad_local) = iliad_local

\* C7's case: brackets, a carriage return and a line feed, none to clean.
C7_Witness ==
    /\ pc = "line40"
    /\ NothingToClean(iliad)
    /\ \E i, j, k \in Positions(iliad) : iliad[i] = LB /\ iliad[j] = RB /\ iliad[k] = LF
    /\ clean(iliad_local) = iliad_local

\* C8: merge_sentences raises on the empty list only: one or more fragments,
\* empty ones among them, always give a string.
C8_RaisesOnlyOnEmpty ==
    (Merged /\ modernized_sentences # <<>>) => pc # "raised"

\* C9 as claimed: the cleaned text of any input holds no line ending.
C9_NoNewlineAfterClean ==
    Cleaned => ~HasNewline(iliad_local)

\* A carriage return and a later line feed with one or more characters
\* between them, all of them brackets or digits.
DeletableGap(s) ==
    \E i, j \in Positions(s) :
        /\ s[i] = CR /\ s[j] = LF /\ j >= i + 2
        /\ \A k \in (i + 1)..(j - 1) : s[k] \in re_digit \cup {LB, RB}

\* C9 as amended: right after line 34 the text holds no line ending, and the
\* cleaned text holds none when the input has no carriage return and line
\* feed separated only by brackets and digits.
C9_NoNewlineUnlessGapDeleted ==
    /\ pc = "line36" => ~HasNewline(iliad_local)
    /\ (Cleaned /\ ~DeletableGap(iliad)) => ~HasNewline(iliad_local)

\* C9's case: line endings and deleted digits, none of them in between.
C9_Witness ==
    /\ pc = "line40"
    /\ Cardinality(NewlineAt(iliad)) >= 2
    /\ \E i \in Positions(iliad) : iliad[i] \in string_digits
    /\ ~DeletableGap(iliad)
    /\ ~HasNewline(iliad_local)

\* C10: in the whole script every fragment handed to merge_sentences is
\* non-empty and free of '.', so the fold never concatenates directly and
\* never fails but on the empty list; the output is the modernized matching
\* fragments, in document order, separated by ". ".
C10_PipelineJoinsWithDelimiter ==
    /\ raised \in {"none", "TypeError"}
    /\ pc \in {"line96", "line98", "done", "raised"} =>
           \A i \in Positions(modernized_sentences) :
               /\ modernized_sentences[i] # <<>>
               /\ \A k \in Positions(modernized_sentences[i]) :
                      modernized_sentences[i][k] # DOT
    /\ pc = "raised" => modernized_sentences = <<>>
    /\ pc \in {"line98", "done"} =>
           /\ modernized_sentences = Modernized(Matching(sentences))
           /\ olympian_iliad = JoinWith(<<DOT, SP>>, modernized_sentences)

\* C10's case: two matching sentences, one of them changed by modernizing.
C10_Witness ==
    /\ pc = "done"
    /\ Len(modernized_sentences) >= 2
    /\ Len(sentences) > Len(modernized_sentences)
    /\ \E i \in Positions(modernized_sentences) :
           modernized_sentences[i] # olympian_sentences[i]

==========================================================================
